---- MODULE Spec2Model ----
(***************************************************************************)
(* SwimRank Updater backend: the live-update endpoint in its two variants  *)
(* (src/main.py, src/backend/main.py), its best-effort persistence of Run  *)
(* and Result documents, and the read endpoints list_runs / get_run_rows.  *)
(*                                                                         *)
(* Text the code inspects character by character (tab names, formatted     *)
(* durations, delta strings, messages, identifier strings) is a sequence   *)
(* of one-character strings; event names and dates are opaque strings.     *)
(***************************************************************************)
EXTENDS Integers, Sequences, FiniteSets, TLC

VARIABLES db, runs, results, next_oid, now, calls, http

vars == <<db, runs, results, next_oid, now, calls, http>>

\* ------------------------------------------------------------------ bounds

\* Longest tab name drawn for a request.
MaxTabLen == 5
\* Width of each window of old durations sampled from [OLD_MS_MIN, OLD_MS_MAX].
OldSpan == 2
\* Distance between the windows of sampled old durations.
OldStride == 10000
\* Number of live_update calls of src/main.py that may be in flight together.
MaxCalls == 2
\* Number of Run documents the store holds at most.
MaxRuns == 2
\* Largest value of the clock that stamps created_at.
MaxTime == 2
\* Largest explicit limit passed to list_runs besides the default.
MaxLimit == 1

\* ------------------------------------------------------- program constants

COUNT_MIN == 1
COUNT_MAX == 3
BASE_ROW_MIN == 4
BASE_ROW_MAX == 18
OLD_MS_MIN == 30000
OLD_MS_MAX == 80000
GAIN_MS_MIN == 200
GAIN_MS_MAX == 1500
DEFAULT_LIMIT == 10
TAB_MIN_LENGTH == 1
BACKEND_MAX_ROWS == 3
BACKEND_MODULUS == 4

\* ------------------------------------------------------------------- text

Digit == <<"0", "1", "2", "3", "4", "5", "6", "7", "8", "9">>

DigitChars == {Digit[i] : i \in 1..10}

\* Python's str(n) for n >= 0.
RECURSIVE str(_)
str(n) == IF n < 10 THEN <<Digit[n + 1]>> ELSE str(n \div 10) \o <<Digit[(n % 10) + 1]>>

\* Python's s.zfill(width).
RECURSIVE zfill(_, _)
zfill(s, width) == IF Len(s) >= width THEN s ELSE zfill(<<"0">> \o s, width)

\* Python's s.strip() for the whitespace the requests carry.
RECURSIVE lstrip(_)
lstrip(s) == IF s # <<>> /\ Head(s) = " " THEN lstrip(Tail(s)) ELSE s

RECURSIVE rstrip(_)
rstrip(s) == IF s # <<>> /\ s[Len(s)] = " " THEN rstrip(SubSeq(s, 1, Len(s) - 1)) ELSE s

strip(s) == rstrip(lstrip(s))

\* Python's `t in s` for strings.
Contains(s, t) == \E i \in 0..(Len(s) - Len(t)) : SubSeq(s, i + 1, i + Len(t)) = t

\* Value of a string of decimal digits.
RECURSIVE DigitsValue(_)
DigitsValue(s) ==
    IF s = <<>> THEN 0
    ELSE 10 * DigitsValue(SubSeq(s, 1, Len(s) - 1))
         + (CHOOSE d \in 0..9 : Digit[d + 1] = s[Len(s)])

IsDigits(s) == Len(s) >= 1 /\ \A i \in 1..Len(s) : s[i] \in DigitChars

\* Position of the first occurrence of character c in s, 0 when absent.
IndexOf(s, c) == IF \E i \in 1..Len(s) : s[i] = c
                 THEN CHOOSE i \in 1..Len(s) : s[i] = c /\ \A j \in 1..(i - 1) : s[j] # c
                 ELSE 0

\* ------------------------------------------------- formatting (src/main.py)

\* fmt(ms): M:SS.mmm.
fmt(ms) ==
    LET s0 == ms \div 1000
        ms_part == ms % 1000
        m == s0 \div 60
        s == s0 % 60
    IN str(m) \o <<":">> \o zfill(str(s), 2) \o <<".">> \o zfill(str(ms_part), 3)

\* gain_ms / 1000 is the double nearest to the quotient.  Its 53-bit
\* significand is the quotient scaled by 2^e, e = 52 plus the number of
\* doublings that bring gain_ms into [1000, 2000); the remainder of
\* gain_ms * 2^e modulo 1000 tells on which side of the quotient it lies.
RECURSIVE NormShift(_)
NormShift(n) == IF n >= 1000 THEN 0 ELSE 1 + NormShift(2 * n)

RECURSIVE DoubleRem(_, _)
DoubleRem(r, k) == IF k = 0 THEN r ELSE DoubleRem((2 * r) % 1000, k - 1)

\* Sign of float(gain_ms / 1000) - gain_ms / 1000.
FloatErrSign(gain_ms) ==
    LET rem == DoubleRem(gain_ms % 1000, 52 + NormShift(gain_ms))
    IN IF rem = 0 THEN 0 ELSE IF 2 * rem > 1000 THEN 1 ELSE -1

\* Hundredths shown by f"{gain_ms/1000:.2f}": the double's exact value rounded
\* to two decimals, ties to even.
Hundredths(gain_ms) ==
    LET q == gain_ms \div 10
        r == gain_ms % 10
        e == FloatErrSign(gain_ms)
    IN IF r < 5 THEN q
       ELSE IF r > 5 THEN q + 1
       ELSE IF e > 0 THEN q + 1
       ELSE IF e < 0 THEN q
       ELSE IF q % 2 = 0 THEN q ELSE q + 1

\* f"{gain_ms/1000:.2f}"
Fixed2(gain_ms) ==
    LET h == Hundredths(gain_ms)
    IN str(h \div 100) \o <<".">> \o zfill(str(h % 100), 2)

\* The delta without its unit suffix.
delta_str_no_unit(gain_ms) == <<"-">> \o Fixed2(gain_ms)

\* f"-{gain_ms/1000:.2f}s"
delta_str(gain_ms) == <<"-">> \o Fixed2(gain_ms) \o <<"s">>

\* -------------------------------------------------------------- requests

\* A URL as pydantic sees it: a scheme and a host.
GoodAthleteUrl == [scheme |-> "https", host |-> "example.com", path |-> "/a"]
GoodSheetUrl == [scheme |-> "https", host |-> "example.com", path |-> "/s"]
BadUrl == [scheme |-> "ftp", host |-> "", path |-> "x"]

\* AnyHttpUrl / HttpUrl: an http(s) scheme and a host.
IsHttpUrl(u) == u.scheme \in {"http", "https"} /\ u.host # ""

\* All tab names over a blank and a letter, up to n characters.
TabsUpTo(n) == UNION {[1..k -> {" ", "a"}] : k \in 0..n}

LiveUpdateRequest(athlete_url, sheet_url, sheet_tab) ==
    [athlete_url |-> athlete_url, sheet_url |-> sheet_url, sheet_tab |-> sheet_tab]

\* Field validation of src/main.py: both URLs parse, sheet_tab has min_length 1.
ValidMain(payload) ==
    /\ IsHttpUrl(payload.athlete_url)
    /\ IsHttpUrl(payload.sheet_url)
    /\ Len(payload.sheet_tab) >= TAB_MIN_LENGTH

\* Field validation of src/backend/main.py: both URLs parse, sheet_tab is any str.
ValidBackend(payload) ==
    /\ IsHttpUrl(payload.athlete_url)
    /\ IsHttpUrl(payload.sheet_url)

\* ------------------------------------------------------ HTTP exchanges

NoExchange == [endpoint |-> "none"]

Exchange(endpoint, variant, request, status, body) ==
    [endpoint |-> endpoint, variant |-> variant, request |-> request,
     status |-> status, body |-> body]

HTTP_OK == 200
HTTP_BAD_REQUEST == 400
HTTP_UNPROCESSABLE == 422

\* FastAPI's answer to a body that fails field validation.
ValidationError == [detail |-> "validation error"]

\* ------------------------------------------- row generator (src/main.py)

events == <<"50m Freestyle", "100m Freestyle", "200m Freestyle",
            "100m Backstroke", "200m Individual Medley">>

Range(s) == {s[i] : i \in 1..Len(s)}

\* datetime.now().strftime("%Y-%m-%d"): the day of the call.
Today == "2024-11-05"

\* Draws with replacement: random.choices in place of random.sample.
sample_repeating(pool, k) == [1..k -> pool]

\* sample(pool, k): every ordered choice of k distinct elements of pool.
sample(pool, k) == {s \in [1..k -> pool] : \A i, j \in 1..k : i # j => s[i] # s[j]}

UpdatedRow(row_number, event, date, old_time, new_time, delta) ==
    [row_number |-> row_number, event |-> event, date |-> date,
     old_time |-> old_time, new_time |-> new_time, delta |-> delta]

\* The improvement applied with the wrong sign.
new_ms_added(old_ms, gain_ms) == old_ms + gain_ms

\* new_ms = old_ms - gain_ms
new_ms_of(old_ms, gain_ms) == old_ms - gain_ms

\* One pass of the loop body: the row for event ev at index idx (0-based).
MakeRow(base_row, idx, ev, old_ms, gain_ms) ==
    UpdatedRow(base_row + idx, ev, Today, fmt(old_ms),
               fmt(new_ms_of(old_ms, gain_ms)), delta_str(gain_ms))

\* The loop over enumerate(chosen); times[i] = <<old_ms, gain_ms>> drawn for row i.
MakeRows(chosen, base_row, times) ==
    [i \in 1..Len(chosen) |->
        MakeRow(base_row, i - 1, chosen[i], times[i][1], times[i][2])]

MainMessageText == <<" ", "l", "i", "g", "n", "e", "(", "s", ")", " ", "m", "i", "s", "e", "s", " ", "à", " ", "j", "o", "u", "r", " ", "d", "a", "n", "s", " ", "'">>

\* f"{len(rows)} ligne(s) mises à jour dans '{payload.sheet_tab}'."
main_message(n, sheet_tab) == str(n) \o MainMessageText \o sheet_tab \o <<"'", ".">>

LiveUpdateResponse(ok, message, updated_count, rows) ==
    [ok |-> ok, message |-> message, updated_count |-> updated_count, rows |-> rows]

BuildResponse(payload, rows) ==
    LiveUpdateResponse(TRUE, main_message(Len(rows), payload.sheet_tab), Len(rows), rows)

\* ---------------------------------- fixed rows (src/backend/main.py)

base_rows == <<
    UpdatedRow(7, "50m Freestyle", "2024-09-14",
               <<"0", "0", ":", "2", "7", ".", "3", "1">>,
               <<"0", "0", ":", "2", "7", ".", "1", "2">>,
               <<"-", "0", ".", "1", "9">>),
    UpdatedRow(12, "100m Butterfly", "2024-10-02",
               <<"0", "1", ":", "0", "5", ".", "8", "8">>,
               <<"0", "1", ":", "0", "5", ".", "4", "0">>,
               <<"-", "0", ".", "4", "8">>),
    UpdatedRow(19, "200m Individual Medley", "2024-10-21",
               <<"0", "2", ":", "3", "8", ".", "1", "0">>,
               <<"0", "2", ":", "3", "7", ".", "5", "5">>,
               <<"-", "0", ".", "5", "5">>) >>

Min(a, b) == IF a < b THEN a ELSE b
Max(a, b) == IF a > b THEN a ELSE b

\* The count without its floor of one row.
backend_count_unclamped(sheet_tab) ==
    Min(BACKEND_MAX_ROWS, Len(sheet_tab) % BACKEND_MODULUS)

\* n = min(3, max(1, len(payload.sheet_tab) % 4))
backend_count(sheet_tab) ==
    Min(BACKEND_MAX_ROWS, Max(1, Len(sheet_tab) % BACKEND_MODULUS))

BackendMessageText == <<" ", "l", "i", "g", "n", "e", "(", "s", ")", " ", "m", "i", "s", "e", "(", "s", ")", " ", "à", " ", "j", "o", "u", "r", " ", "d", "a", "n", "s", " ", "l", "'", "o", "n", "g", "l", "e", "t", " ", "'">>

\* f"{n} ligne(s) mise(s) à jour dans l'onglet '{payload.sheet_tab}'."
backend_message(n, sheet_tab) == str(n) \o BackendMessageText \o sheet_tab \o <<"'", ".">>

\* The handler of src/backend/main.py: the response to a payload that passed
\* field validation.
backend_live_update(payload) ==
    IF strip(payload.sheet_tab) = <<>>
    THEN Exchange("live_update", "backend", payload, HTTP_BAD_REQUEST,
                  [detail |-> "Le nom d'onglet est requis"])
    ELSE LET n == backend_count(payload.sheet_tab)
             rows == SubSeq(base_rows, 1, n)
         IN Exchange("live_update", "backend", payload, HTTP_OK,
                     LiveUpdateResponse(TRUE, backend_message(n, payload.sheet_tab),
                                        Len(rows), rows))

\* ------------------------------------------------------ document store
\* The persistence adapter (database.db, create_document, get_documents) is
\* outside the sources at hand; it is modelled from its description: a
\* document store that assigns each inserted document an identifier and a
\* creation timestamp and returns the identifier's string form, and that
\* fetches the documents matching a filter, up to a limit.

ObjectId(n) == [oid |-> n]

\* str(ObjectId): the identifier's string form.
str_oid(o) == str(o.oid)

\* The document as stored by create_document at time t under identifier oid.
stored_document(doc, oid, t) == doc @@ [_id |-> ObjectId(oid), created_at |-> t]

Matches(d, filter) == \A k \in DOMAIN filter : k \in DOMAIN d /\ d[k] = filter[k]

SelectMatching(coll, filter) == SelectSeq(coll, LAMBDA d : Matches(d, filter))

\* get_documents(collection, filter, limit=limit)
get_documents(coll, filter, limit) ==
    LET found == SelectMatching(coll, filter)
    IN SubSeq(found, 1, Min(limit, Len(found)))

\* get_documents(collection, filter)
get_all_documents(coll, filter) == SelectMatching(coll, filter)

\* A Run and its Result written to the store before this process started,
\* by a writer that stamped no creation time.
LegacyRun ==
    [_id |-> ObjectId(1), athlete_url |-> GoodAthleteUrl, sheet_url |-> GoodSheetUrl,
     sheet_tab |-> <<"a">>, ok |-> TRUE, message |-> main_message(1, <<"a">>),
     updated_count |-> 1]

LegacyResult ==
    [_id |-> ObjectId(2), run_id |-> str_oid(ObjectId(1))]
    @@ [k \in {"row_number", "event", "date", "old_time", "new_time", "delta"} |->
            MakeRow(BASE_ROW_MIN, 0, events[1], OLD_MS_MIN, GAIN_MS_MIN)[k]]

\* ------------------------------------------ live_update of src/main.py

CallIds == 1..MaxCalls

IdleCall == [pc |-> "idle"]

\* Run(athlete_url=..., ..., updated_count=response.updated_count)
RunDoc(payload, response) ==
    [athlete_url |-> payload.athlete_url, sheet_url |-> payload.sheet_url,
     sheet_tab |-> payload.sheet_tab, ok |-> response.ok,
     message |-> response.message, updated_count |-> response.updated_count]

\* Result(run_id=run_id, row_number=r.row_number, ...)
ResultDoc(run_id, r) ==
    [run_id |-> run_id, row_number |-> r.row_number, event |-> r.event,
     date |-> r.date, old_time |-> r.old_time, new_time |-> r.new_time,
     delta |-> r.delta]

\* An except clause that records the failure in the response.
except_pass_marks_failed(call) ==
    [call EXCEPT !.pc = "return", !.response.ok = FALSE]

\* The except clause around persistence: `pass`.
except_pass(call) == [call EXCEPT !.pc = "return"]

\* The values a call draws: D.tabs, D.urls for the request, and D.counts,
\* D.pool, D.bases, D.olds, D.gains for randint and sample.
Payloads(D) ==
    {LiveUpdateRequest(a, s, t) : a \in D.athlete_urls, s \in D.sheet_urls, t \in D.tabs}

\* A request body that fails field validation never reaches the handler.
LiveUpdateRejected(D) ==
    /\ http = NoExchange
    /\ \E payload \in Payloads(D) :
          /\ ~ValidMain(payload)
          /\ http' = Exchange("live_update", "main", payload, HTTP_UNPROCESSABLE,
                              ValidationError)
    /\ UNCHANGED <<db, runs, results, next_oid, now, calls>>

\* The handler up to the store check: draw the rows, build the response, and
\* either start persisting (db is not None) or go straight to the return.
LiveUpdate(D, ids) ==
    /\ http = NoExchange
    /\ Len(runs) + Cardinality({c \in CallIds : calls[c].pc = "persist_run"}) < MaxRuns
    /\ \E c \in ids :
          /\ calls[c].pc = "idle"
          /\ \A d \in ids : d < c => calls[d].pc # "idle"
          /\ \E payload \in {p \in Payloads(D) : ValidMain(p)},
                count \in D.counts, base_row \in D.bases :
                \E chosen \in sample(D.pool, count),
                   times \in [1..count -> D.olds \X D.gains] :
                   LET rows == MakeRows(chosen, base_row, times)
                       response == BuildResponse(payload, rows)
                   IN calls' = [calls EXCEPT ![c] =
                                   [pc |-> IF db THEN "persist_run" ELSE "return",
                                    payload |-> payload, rows |-> rows,
                                    response |-> response, run_id |-> <<>>, idx |-> 0]]
    /\ UNCHANGED <<db, runs, results, next_oid, now, http>>

\* run_id = create_document("run", run_doc) returned.
InsertRun(c) ==
    /\ http = NoExchange
    /\ calls[c].pc = "persist_run"
    /\ runs' = Append(runs, stored_document(RunDoc(calls[c].payload, calls[c].response),
                                            next_oid, now))
    /\ next_oid' = next_oid + 1
    /\ calls' = [calls EXCEPT ![c].run_id = str_oid(ObjectId(next_oid)),
                              ![c].pc = "persist_results"]
    /\ UNCHANGED <<db, results, now, http>>

\* create_document("result", res_doc) returned for the next row of the loop.
InsertResult(c) ==
    /\ http = NoExchange
    /\ calls[c].pc = "persist_results"
    /\ LET r == calls[c].rows[calls[c].idx + 1]
       IN results' = Append(results,
                            stored_document(ResultDoc(calls[c].run_id, r), next_oid, now))
    /\ next_oid' = next_oid + 1
    /\ calls' = [calls EXCEPT ![c].idx = @ + 1,
                              ![c].pc = IF calls[c].idx + 1 = Len(calls[c].rows)
                                        THEN "return" ELSE "persist_results"]
    /\ UNCHANGED <<db, runs, now, http>>

\* The schemas import, a document constructor or create_document raised: the
\* except clause swallows it.
PersistFail(c) ==
    /\ http = NoExchange
    /\ calls[c].pc \in {"persist_run", "persist_results"}
    /\ calls' = [calls EXCEPT ![c] = except_pass(calls[c])]
    /\ UNCHANGED <<db, runs, results, next_oid, now, http>>

\* return response
Return(c) ==
    /\ http = NoExchange
    /\ calls[c].pc = "return"
    /\ http' = Exchange("live_update", "main", calls[c].payload, HTTP_OK,
                        calls[c].response)
    /\ calls' = [calls EXCEPT ![c] = IdleCall]
    /\ UNCHANGED <<db, runs, results, next_oid, now>>

\* ------------------------------------ live_update of src/backend/main.py

BackendLiveUpdate(D) ==
    /\ http = NoExchange
    /\ \E payload \in Payloads(D) :
          http' = IF ValidBackend(payload)
                  THEN backend_live_update(payload)
                  ELSE Exchange("live_update", "backend", payload, HTTP_UNPROCESSABLE,
                                ValidationError)
    /\ UNCHANGED <<db, runs, results, next_oid, now, calls>>

\* ------------------------------------------------------- read endpoints

DATETIME_MIN == 0

\* key=lambda d: d.get("created_at", datetime.min)
created_key(d) == IF "created_at" \in DOMAIN d THEN d.created_at ELSE DATETIME_MIN

\* The insertion step of a sort without reverse=True.
insert_ascending(sorted, x) ==
    SelectSeq(sorted, LAMBDA e : created_key(e) <= created_key(x)) \o <<x>>
    \o SelectSeq(sorted, LAMBDA e : created_key(e) > created_key(x))

\* list.sort(key=created_key, reverse=True): stable, largest key first; x is
\* placed after the elements whose key is at least its own.
insert_descending(sorted, x) ==
    SelectSeq(sorted, LAMBDA e : created_key(e) >= created_key(x)) \o <<x>>
    \o SelectSeq(sorted, LAMBDA e : created_key(e) < created_key(x))

RECURSIVE sort_created_desc(_)
sort_created_desc(s) ==
    IF s = <<>> THEN <<>>
    ELSE insert_descending(sort_created_desc(SubSeq(s, 1, Len(s) - 1)), s[Len(s)])

\* if "_id" in r: r["id"] = str(r.pop("_id"))
public_id(d) ==
    IF "_id" \in DOMAIN d
    THEN [k \in (DOMAIN d \ {"_id"}) \cup {"id"} |->
             IF k = "id" THEN str_oid(d._id) ELSE d[k]]
    ELSE d

public_ids(s) == [i \in 1..Len(s) |-> public_id(s[i])]

Faults == {"none", "fetch", "transform"}

NotConfigured == <<"Database not configured">>

\* str(e) of the exception caught.
ErrorMessage(fault) == <<"error", fault>>

\* list_runs without its try/except: the exception reaches the framework.
list_runs_raising(configured, coll, limit, fault) ==
    IF ~configured
    THEN [status |-> HTTP_OK, body |-> [ok |-> FALSE, message |-> NotConfigured, runs |-> <<>>]]
    ELSE IF fault # "none"
    THEN [status |-> 500, body |-> [detail |-> ErrorMessage(fault)]]
    ELSE [status |-> HTTP_OK,
          body |-> [ok |-> TRUE,
                    runs |-> public_ids(sort_created_desc(get_documents(coll, <<>>, limit)))]]

\* list_runs(limit) against store contents coll; fault names what raises
\* inside the try block, if anything.
list_runs(configured, coll, limit, fault) ==
    IF ~configured
    THEN [status |-> HTTP_OK, body |-> [ok |-> FALSE, message |-> NotConfigured, runs |-> <<>>]]
    ELSE IF fault # "none"
    THEN [status |-> HTTP_OK,
          body |-> [ok |-> FALSE, message |-> ErrorMessage(fault), runs |-> <<>>]]
    ELSE [status |-> HTTP_OK,
          body |-> [ok |-> TRUE,
                    runs |-> public_ids(sort_created_desc(get_documents(coll, <<>>, limit)))]]

\* get_run_rows with a check that the run has rows.
get_run_rows_checking(configured, coll, run_id, fault) ==
    IF ~configured
    THEN [status |-> HTTP_OK, body |-> [ok |-> FALSE, message |-> NotConfigured, rows |-> <<>>]]
    ELSE IF fault # "none" \/ get_all_documents(coll, [run_id |-> run_id]) = <<>>
    THEN [status |-> HTTP_OK,
          body |-> [ok |-> FALSE, message |-> ErrorMessage(fault), rows |-> <<>>]]
    ELSE [status |-> HTTP_OK,
          body |-> [ok |-> TRUE,
                    rows |-> public_ids(get_all_documents(coll, [run_id |-> run_id]))]]

\* get_run_rows(run_id) against store contents coll.
get_run_rows(configured, coll, run_id, fault) ==
    IF ~configured
    THEN [status |-> HTTP_OK, body |-> [ok |-> FALSE, message |-> NotConfigured, rows |-> <<>>]]
    ELSE IF fault # "none"
    THEN [status |-> HTTP_OK,
          body |-> [ok |-> FALSE, message |-> ErrorMessage(fault), rows |-> <<>>]]
    ELSE [status |-> HTTP_OK,
          body |-> [ok |-> TRUE,
                    rows |-> public_ids(get_all_documents(coll, [run_id |-> run_id]))]]

Limits == (1..MaxLimit) \cup {DEFAULT_LIMIT}

ListRuns ==
    /\ http = NoExchange
    /\ \E limit \in Limits, fault \in Faults :
          LET r == list_runs(db, runs, limit, fault)
          IN http' = Exchange("list_runs", "main", [limit |-> limit, fault |-> fault],
                              r.status, r.body)
    /\ UNCHANGED <<db, runs, results, next_oid, now, calls>>

\* Identifier strings a client may ask for: those of the stored runs, and one
\* the store has not assigned.
RunIds == {str_oid(r._id) : r \in Range(runs)} \cup {str(next_oid)}

GetRunRows ==
    /\ http = NoExchange
    /\ \E run_id \in RunIds, fault \in Faults :
          LET r == get_run_rows(db, results, run_id, fault)
          IN http' = Exchange("get_run_rows", "main", [run_id |-> run_id, fault |-> fault],
                              r.status, r.body)
    /\ UNCHANGED <<db, runs, results, next_oid, now, calls>>

\* ------------------------------------------------------- environment

\* The client takes the response.  One exchange is observed at a time: every
\* other step waits until the pending exchange has been taken.
Receive ==
    /\ http # NoExchange
    /\ http' = NoExchange
    /\ UNCHANGED <<db, runs, results, next_oid, now, calls>>

\* Time passes.
Tick ==
    /\ http = NoExchange
    /\ now < MaxTime
    /\ now' = now + 1
    /\ UNCHANGED <<db, runs, results, next_oid, calls, http>>

\* --------------------------------------------------------- draw sets

OldSamples == {o \in OLD_MS_MIN..OLD_MS_MAX : o % OldStride <= OldSpan}

\* Requests of every shape, every count, sample and base row; one duration pair.
GenDraws ==
    [athlete_urls |-> {GoodAthleteUrl, BadUrl}, sheet_urls |-> {GoodSheetUrl, BadUrl},
     tabs |-> TabsUpTo(MaxTabLen),
     counts |-> COUNT_MIN..COUNT_MAX, pool |-> Range(events),
     bases |-> BASE_ROW_MIN..BASE_ROW_MAX,
     olds |-> {OLD_MS_MIN}, gains |-> {GAIN_MS_MIN}]

\* One-row responses over the sampled old durations and every improvement.
TimeDraws ==
    [athlete_urls |-> {GoodAthleteUrl}, sheet_urls |-> {GoodSheetUrl},
     tabs |-> {<<"a">>, <<"a", " ">>, <<" ", "a", "a">>},
     counts |-> {COUNT_MIN}, pool |-> {events[1]}, bases |-> {BASE_ROW_MIN},
     olds |-> OldSamples, gains |-> GAIN_MS_MIN..GAIN_MS_MAX]

\* Concurrent calls that write to the store: two rows each, in either order.
StoreDraws ==
    [athlete_urls |-> {GoodAthleteUrl}, sheet_urls |-> {GoodSheetUrl},
     tabs |-> {<<"a">>},
     counts |-> {COUNT_MIN + 1}, pool |-> {events[1], events[2]},
     bases |-> {BASE_ROW_MIN},
     olds |-> {OLD_MS_MIN}, gains |-> {GAIN_MS_MIN}]

\* Calls whose documents the read endpoints fetch: one or two rows each.
ReadDraws ==
    [athlete_urls |-> {GoodAthleteUrl}, sheet_urls |-> {GoodSheetUrl},
     tabs |-> {<<"a">>},
     counts |-> COUNT_MIN..(COUNT_MIN + 1), pool |-> {events[1], events[2]},
     bases |-> {BASE_ROW_MIN},
     olds |-> {OLD_MS_MIN}, gains |-> {GAIN_MS_MIN}]

\* --------------------------------------------------- specifications

InitNoStore ==
    /\ db = FALSE
    /\ runs = <<>>
    /\ results = <<>>
    /\ next_oid = 1
    /\ now = 1
    /\ calls = [c \in CallIds |-> IdleCall]
    /\ http = NoExchange

\* The process as started: the store configured or not, and empty.
Init ==
    /\ db \in BOOLEAN
    /\ runs = <<>>
    /\ results = <<>>
    /\ next_oid = 1
    /\ now = 1
    /\ calls = [c \in CallIds |-> IdleCall]
    /\ http = NoExchange

\* The process as started, the store when configured either empty or holding
\* the documents of an earlier writer.
InitReads ==
    /\ db \in BOOLEAN
    /\ \/ runs = <<>> /\ results = <<>> /\ next_oid = 1
       \/ db /\ runs = <<LegacyRun>> /\ results = <<LegacyResult>> /\ next_oid = 3
    /\ now = 1
    /\ calls = [c \in CallIds |-> IdleCall]
    /\ http = NoExchange

\* Concurrent calls of live_update against the store: each store operation
\* of a call is one step, and the steps of different calls interleave.
Next ==
    \/ LiveUpdate(StoreDraws, CallIds)
    \/ \E c \in CallIds : InsertRun(c)
    \/ \E c \in CallIds : InsertResult(c)
    \/ \E c \in CallIds : PersistFail(c)
    \/ \E c \in CallIds : Return(c)
    \/ Receive

Spec == Init /\ [][Next]_vars

\* The read endpoints against a store that one caller of live_update at a
\* time writes to, while time passes.
NextReads ==
    \/ LiveUpdate(ReadDraws, {1})
    \/ InsertRun(1)
    \/ InsertResult(1)
    \/ PersistFail(1)
    \/ Return(1)
    \/ ListRuns
    \/ GetRunRows
    \/ Receive
    \/ Tick

SpecReads == InitReads /\ [][NextReads]_vars

\* No call of live_update is in flight.
Quiet == \A c \in CallIds : calls[c].pc = "idle"

\* Both variants of live-update without a store, one request at a time, over
\* every request shape.
NextGen ==
    \/ Quiet /\ LiveUpdateRejected(GenDraws)
    \/ LiveUpdate(GenDraws, {1})
    \/ Return(1)
    \/ Quiet /\ BackendLiveUpdate(GenDraws)
    \/ Receive

SpecGen == InitNoStore /\ [][NextGen]_vars

\* Both variants of live-update without a store, one request at a time, over
\* the durations.
NextTimes ==
    \/ LiveUpdate(TimeDraws, {1})
    \/ Return(1)
    \/ Quiet /\ BackendLiveUpdate(TimeDraws)
    \/ Receive

SpecTimes == InitNoStore /\ [][NextTimes]_vars

\* ------------------------------------------------------------ claims

IsLiveUpdate(x) == x.endpoint = "live_update"

\* A live-update exchange answered with a LiveUpdateResponse.
Accepted(x) == IsLiveUpdate(x) /\ x.status = HTTP_OK

IsClientError(status) == status >= 400 /\ status <= 499

RowEvents(rows) == {rows[i].event : i \in 1..Len(rows)}

PairwiseDistinctEvents(rows) ==
    \A i, j \in 1..Len(rows) : i # j => rows[i].event # rows[j].event

\* A duration string M:SS.fff read back as milliseconds: minutes, seconds and
\* a decimal fraction of up to three digits.
RECURSIVE Pow10(_)
Pow10(k) == IF k = 0 THEN 1 ELSE 10 * Pow10(k - 1)

ParseDuration(s) ==
    LET colon == IndexOf(s, ":")
        dot == IndexOf(s, ".")
        frac == SubSeq(s, dot + 1, Len(s))
    IN 60000 * DigitsValue(SubSeq(s, 1, colon - 1))
       + 1000 * DigitsValue(SubSeq(s, colon + 1, dot - 1))
       + DigitsValue(frac) * Pow10(3 - Len(frac))

IsDurationText(s) ==
    LET colon == IndexOf(s, ":")
        dot == IndexOf(s, ".")
    IN /\ colon >= 2
       /\ dot >= colon + 2
       /\ IsDigits(SubSeq(s, 1, colon - 1))
       /\ IsDigits(SubSeq(s, colon + 1, dot - 1))
       /\ IsDigits(SubSeq(s, dot + 1, Len(s)))
       /\ Len(s) - dot <= 3

\* -\d+\.\d{2}
MatchesSignedHundredths(s) ==
    LET dot == IndexOf(s, ".")
    IN /\ Len(s) >= 5
       /\ s[1] = "-"
       /\ dot >= 3
       /\ IsDigits(SubSeq(s, 2, dot - 1))
       /\ Len(s) = dot + 2
       /\ IsDigits(SubSeq(s, dot + 1, dot + 2))

\* -\d+\.\d{2}s
MatchesDeltaPattern(s) ==
    /\ Len(s) >= 6
    /\ s[Len(s)] = "s"
    /\ MatchesSignedHundredths(SubSeq(s, 1, Len(s) - 1))

\* The request is valid as section 4.1 of the specification has it: both
\* URLs are syntactically valid and the tab name is neither empty nor blank.
ValidRequest(payload) ==
    /\ IsHttpUrl(payload.athlete_url)
    /\ IsHttpUrl(payload.sheet_url)
    /\ strip(payload.sheet_tab) # <<>>

\* C1: every valid live-update request with a non-empty tab name is answered
\* with ok = true, 1 <= updated_count <= 3 and updated_count = len(rows), in
\* both variants and for every tab-name length; the backend variant's count
\* is min(3, max(1, len(sheet_tab) mod 4)).  So is every request a variant
\* accepts.
C1_CountMatchesRows ==
    IsLiveUpdate(http) =>
        /\ ValidRequest(http.request) => http.status = HTTP_OK
        /\ http.status = HTTP_OK =>
              /\ http.body.ok = TRUE
              /\ COUNT_MIN <= http.body.updated_count
              /\ http.body.updated_count <= COUNT_MAX
              /\ http.body.updated_count = Len(http.body.rows)
              /\ http.variant = "backend" =>
                    LET m == Len(http.request.sheet_tab) % 4
                    IN http.body.updated_count = (IF m = 0 THEN 1 ELSE m)

\* The backend variant answers a tab name whose length is a multiple of four.
C1_Witness ==
    /\ Accepted(http)
    /\ http.variant = "backend"
    /\ Len(http.request.sheet_tab) = 4
    /\ http.body.updated_count = 1

\* C2: a live-update request whose tab name is empty or only whitespace is
\* rejected with a client error and yields no rows, in every variant.
C2_BlankTabRejected ==
    (IsLiveUpdate(http) /\ strip(http.request.sheet_tab) = <<>>) =>
        /\ IsClientError(http.status)
        /\ "rows" \notin DOMAIN http.body

\* C4: in every row of every live-update response new_time, read as a
\* duration, is strictly less than old_time read as a duration.
C4_NewTimeBelowOldTime ==
    Accepted(http) =>
        \A i \in 1..Len(http.body.rows) :
            LET r == http.body.rows[i]
            IN /\ IsDurationText(r.old_time)
               /\ IsDurationText(r.new_time)
               /\ ParseDuration(r.new_time) < ParseDuration(r.old_time)

\* A row of src/main.py whose improvement takes it below the minute.
C4_Witness ==
    /\ Accepted(http)
    /\ http.variant = "main"
    /\ \E i \in 1..Len(http.body.rows) :
          /\ ParseDuration(http.body.rows[i].old_time) = 60000
          /\ ParseDuration(http.body.rows[i].new_time) = 58500

\* C5 as stated: in every variant the event names of one response are
\* pairwise distinct and members of the five-event catalog.
C5_EventsDistinctInCatalog ==
    Accepted(http) =>
        /\ PairwiseDistinctEvents(http.body.rows)
        /\ RowEvents(http.body.rows) \subseteq
              {"50m Freestyle", "100m Freestyle", "200m Freestyle",
               "100m Backstroke", "200m Individual Medley"}

\* C5 amended: in every variant the event names of one response are pairwise
\* distinct; in src/main.py they are members of the five-event catalog, in
\* src/backend/main.py they are the events of the three fixed rows, of which
\* 100m Butterfly is outside the catalog.
C5_EventsDistinctPerVariant ==
    Accepted(http) =>
        /\ PairwiseDistinctEvents(http.body.rows)
        /\ http.variant = "main" =>
              RowEvents(http.body.rows) \subseteq
                  {"50m Freestyle", "100m Freestyle", "200m Freestyle",
                   "100m Backstroke", "200m Individual Medley"}
        /\ http.variant = "backend" =>
              RowEvents(http.body.rows) \subseteq
                  {"50m Freestyle", "100m Butterfly", "200m Individual Medley"}

\* A response of src/main.py with three rows.
C5_Witness ==
    /\ Accepted(http)
    /\ http.variant = "main"
    /\ Len(http.body.rows) = 3

\* C6 as stated: in every variant each row's delta matches -\d+\.\d{2}s and
\* the message contains the requested tab name.
C6_DeltaPatternAndTab ==
    Accepted(http) =>
        /\ \A i \in 1..Len(http.body.rows) : MatchesDeltaPattern(http.body.rows[i].delta)
        /\ Contains(http.body.message, http.request.sheet_tab)

\* C6 amended: the message contains the requested tab name in every variant;
\* each row's delta matches -\d+\.\d{2}s in src/main.py, and -\d+\.\d{2} with
\* no trailing 's' in src/backend/main.py.
C6_DeltaPatternPerVariant ==
    Accepted(http) =>
        /\ Contains(http.body.message, http.request.sheet_tab)
        /\ http.variant = "main" =>
              \A i \in 1..Len(http.body.rows) :
                  MatchesDeltaPattern(http.body.rows[i].delta)
        /\ http.variant = "backend" =>
              \A i \in 1..Len(http.body.rows) :
                  MatchesSignedHundredths(http.body.rows[i].delta)

\* A row of src/main.py whose improvement rounds up to a full second.
C6_Witness ==
    /\ Accepted(http)
    /\ http.variant = "main"
    /\ http.body.rows[1].delta = <<"-", "1", ".", "0", "0", "s">>
    /\ ParseDuration(http.body.rows[1].old_time)
          - ParseDuration(http.body.rows[1].new_time) = 996

InFlight(c) == calls[c].pc # "idle"

\* The response a call of src/main.py builds from its payload and rows.
BuiltResponse(call) ==
    [ok |-> TRUE,
     message |-> str(Len(call.rows)) \o MainMessageText \o call.payload.sheet_tab
                 \o <<"'", ".">>,
     updated_count |-> Len(call.rows),
     rows |-> call.rows]

\* C3: persistence is best-effort.  Whether the store is absent, the Run
\* insert raises, or a Result insert raises after earlier inserts succeeded,
\* no step of a call in flight changes its payload, rows or response, and the
\* call returns, with status 200, exactly the response built from them.
C3_PersistenceKeepsResponse ==
    [][\A c \in CallIds :
          InFlight(c) =>
              IF calls'[c].pc = "idle"
              THEN /\ http'.endpoint = "live_update"
                   /\ http'.status = HTTP_OK
                   /\ http'.request = calls[c].payload
                   /\ http'.body = BuiltResponse(calls[c])
              ELSE /\ calls'[c].payload = calls[c].payload
                   /\ calls'[c].rows = calls[c].rows
                   /\ calls'[c].response = BuiltResponse(calls[c])]_vars

\* A call about to return after its second Result insert raised: the Run and
\* the first Result are in the store.
C3_Witness ==
    \E c \in CallIds :
        /\ db
        /\ calls[c].pc = "return"
        /\ calls[c].idx = 1
        /\ Len(calls[c].rows) = 2
        /\ \E i \in 1..Len(runs) : str_oid(runs[i]._id) = calls[c].run_id

ResultsOf(run) == {j \in 1..Len(results) : results[j].run_id = str_oid(run._id)}

\* C10: once no call is in flight, every Run document in the store has
\* exactly updated_count Result documents referencing it, and every Result
\* document references a stored Run.
C10_RunsHaveAllResults ==
    (\A c \in CallIds : ~InFlight(c)) =>
        /\ \A i \in 1..Len(runs) :
              Cardinality(ResultsOf(runs[i])) = runs[i].updated_count
        /\ \A j \in 1..Len(results) :
              \E i \in 1..Len(runs) : results[j].run_id = str_oid(runs[i]._id)

IsRead(x) == x.endpoint \in {"list_runs", "get_run_rows"}

ReadList(x) == IF x.endpoint = "list_runs" THEN x.body.runs ELSE x.body.rows

\* C7: the read endpoints never raise.  Each answers with status 200; with no
\* store configured, or when the fetch or the identifier rewriting raises,
\* the body has ok = false, a message and an empty list.
C7_ReadsNeverRaise ==
    IsRead(http) =>
        /\ http.status = HTTP_OK
        /\ (~db \/ http.request.fault # "none") =>
              /\ http.body.ok = FALSE
              /\ "message" \in DOMAIN http.body
              /\ ReadList(http) = <<>>

\* list_runs answered while the store holds runs and the fetch raised.
C7_Witness ==
    /\ http.endpoint = "list_runs"
    /\ db
    /\ runs # <<>>
    /\ http.request.fault = "fetch"
    /\ http.body.ok = FALSE

HasCreatedAt(d) == "created_at" \in DOMAIN d

\* Document out is stored document d with _id replaced by its string form
\* under the key id.
IsPublicFormOf(out, d) ==
    /\ DOMAIN out = (DOMAIN d \ {"_id"}) \cup {"id"}
    /\ out.id = str(d._id.oid)
    /\ \A k \in DOMAIN d \ {"_id"} : out[k] = d[k]

\* C8: with a store configured and the fetch succeeding, list_runs(limit)
\* answers ok = true with at most limit run documents, most recent first,
\* documents without a creation timestamp after all those with one, each a
\* stored run whose _id is replaced by its string form under the key id.
C8_ListRunsSortedPublic ==
    (http.endpoint = "list_runs" /\ db /\ http.request.fault = "none") =>
        LET out == http.body.runs
        IN /\ http.body.ok = TRUE
           /\ Len(out) <= http.request.limit
           /\ \A i, j \in 1..Len(out) :
                 i < j =>
                    /\ HasCreatedAt(out[j]) => HasCreatedAt(out[i])
                    /\ (HasCreatedAt(out[i]) /\ HasCreatedAt(out[j])) =>
                          out[i].created_at >= out[j].created_at
           /\ \A i \in 1..Len(out) :
                 \E k \in 1..Len(runs) : IsPublicFormOf(out[i], runs[k])
           /\ \A i, j \in 1..Len(out) : i # j => out[i].id # out[j].id

\* list_runs returned a later run before an earlier one, and before the
\* stored run that has no creation timestamp and was fetched first.
C8_Witness ==
    /\ http.endpoint = "list_runs"
    /\ http.body.ok = TRUE
    /\ Len(http.body.runs) = 2
    /\ ~HasCreatedAt(runs[1])
    /\ HasCreatedAt(http.body.runs[1])
    /\ ~HasCreatedAt(http.body.runs[2])

\* C9: with a store configured (and no fetch error), get_run_rows(run_id)
\* answers ok = true with exactly the Result documents whose run reference is
\* run_id; a run_id matching no stored Run gives ok = true and no rows.
C9_RowsOfRunNoExistenceCheck ==
    (http.endpoint = "get_run_rows" /\ db /\ http.request.fault = "none") =>
        LET out == http.body.rows
            rid == http.request.run_id
            match == {j \in 1..Len(results) : results[j].run_id = rid}
        IN /\ http.status = HTTP_OK
           /\ http.body.ok = TRUE
           /\ Len(out) = Cardinality(match)
           /\ \A i \in 1..Len(out) : \E j \in match : IsPublicFormOf(out[i], results[j])
           /\ \A i, j \in 1..Len(out) : i # j => out[i].id # out[j].id
           /\ (\A k \in 1..Len(runs) : str(runs[k]._id.oid) # rid) => out = <<>>

\* get_run_rows asked for an identifier of no stored Run while the store
\* holds Results of other runs.
C9_Witness ==
    /\ http.endpoint = "get_run_rows"
    /\ db
    /\ results # <<>>
    /\ http.request.fault = "none"
    /\ \A k \in 1..Len(runs) : str(runs[k]._id.oid) # http.request.run_id
    /\ http.body.ok = TRUE
    /\ http.body.rows = <<>>

====
